---- MODULE Spec2Model ----
(***************************************************************************)
(* Model of the search and retrieval-ranking subsystem of the cabinet      *)
(* backend: text chunking, embedding storage (embed_transcript and the     *)
(* pipeline step that calls it) and the semantic / keyword / combined      *)
(* searches with their search-history log.                                 *)
(*                                                                         *)
(* Texts are sequences of one-character strings.  Scores are integers:     *)
(* similarities and rank scores in hundredths, weights in tenths, so a     *)
(* combined score is in thousandths.                                       *)
(***************************************************************************)
EXTENDS Integers, Sequences, FiniteSets, TLC

(***************************************************************************)
(* Bounds of the model.  ChunkSize, ChunkOverlap, BatchSize and            *)
(* MaxInputChars stand for the program's 1000, 200, 50 and 8000, scaled    *)
(* down so that several windows and several batches occur on short texts.  *)
(***************************************************************************)
ChunkSize == 8
ChunkOverlap == 2
BatchSize == 2
MaxInputChars == 10
MaxEmbedCalls == 2

NULL == <<>>

Min(S) == CHOOSE x \in S : \A y \in S : x <= y
Max(S) == CHOOSE x \in S : \A y \in S : x >= y

(***************************************************************************)
(* Python string helpers                                                   *)
(***************************************************************************)
Whitespace == {" ", "\n"}

\* a slice index as Python normalises it: a negative index counts from the
\* end, and the result is clamped to 0..len
PyIndex(n, x) == IF x < 0 THEN (IF x + n < 0 THEN 0 ELSE x + n) ELSE (IF x > n THEN n ELSE x)

\* text[a:b]
PySlice(text, a, b) ==
    LET lo == PyIndex(Len(text), a)
        hi == PyIndex(Len(text), b)
    IN IF lo < hi THEN SubSeq(text, lo + 1, hi) ELSE <<>>

\* str.strip()
Strip(text) ==
    LET keep == {i \in 1..Len(text) : text[i] \notin Whitespace}
    IN IF keep = {} THEN <<>> ELSE SubSeq(text, Min(keep), Max(keep))

\* len(str.split()): the number of maximal runs of non-whitespace characters
WordCount(text) ==
    Cardinality({i \in 1..Len(text) :
        /\ text[i] \notin Whitespace
        /\ (i = 1 \/ text[i - 1] \in Whitespace)})

\* str.rfind(d): 0-based index of the last occurrence, -1 when there is none
RFind(text, d) ==
    LET hits == {i \in 0..(Len(text) - Len(d)) : SubSeq(text, i + 1, i + Len(d)) = d}
    IN IF hits = {} THEN -1 ELSE Max(hits)

(***************************************************************************)
(* EmbeddingService.chunk_text                                             *)
(***************************************************************************)
Delimiters == << <<".", " ">>, <<"!", " ">>, <<"?", " ">>, <<"\n", "\n">>, <<"\n">> >>

\* the for-loop over the delimiters: the first delimiter whose last
\* occurrence in the window is past half the chunk size moves the end
SnapEnd(text, start, end, chunk_size) ==
    LET window == PySlice(text, start, end)
        good == {k \in 1..Len(Delimiters) : 2 * RFind(window, Delimiters[k]) > chunk_size}
    IN IF good = {} THEN end
       ELSE LET d == Delimiters[Min(good)]
            IN start + RFind(window, d) + Len(d)

\* the end of the window that starts at `start`
WindowEnd(text, chunk_size, start) ==
    LET end0 == start + chunk_size
    IN IF end0 < Len(text) THEN SnapEnd(text, start, end0, chunk_size) ELSE end0

\* an iteration that ends the loop once its window has reached the end of
\* the text
ChunkStepStopAtEnd(text, chunk_size, overlap, start, chunks) ==
    LET end0 == start + chunk_size
        end == IF end0 < Len(text) THEN SnapEnd(text, start, end0, chunk_size) ELSE end0
        chunk_text == Strip(PySlice(text, start, end))
        chunks2 == IF chunk_text # <<>>
                   THEN Append(chunks, <<chunk_text, start, IF end < Len(text) THEN end ELSE Len(text)>>)
                   ELSE chunks
        start1 == end - overlap
        stuck == IF chunks2 # <<>> THEN start1 <= chunks2[Len(chunks2)][2] ELSE FALSE
    IN << IF stuck \/ end >= Len(text) THEN end ELSE start1, chunks2 >>

\* one iteration of the while loop: <<next start, chunks>>
ChunkStep(text, chunk_size, overlap, start, chunks) ==
    LET end0 == start + chunk_size
        end == IF end0 < Len(text) THEN SnapEnd(text, start, end0, chunk_size) ELSE end0
        chunk_text == Strip(PySlice(text, start, end))
        chunks2 == IF chunk_text # <<>>
                   THEN Append(chunks, <<chunk_text, start, IF end < Len(text) THEN end ELSE Len(text)>>)
                   ELSE chunks
        start1 == end - overlap
        \* `start <= chunks[-1][1] if chunks else 0`: with no chunk yet the test is 0 (false)
        stuck == IF chunks2 # <<>> THEN start1 <= chunks2[Len(chunks2)][2] ELSE FALSE
    IN << IF stuck THEN end ELSE start1, chunks2 >>

RECURSIVE ChunkLoop(_, _, _, _, _)
ChunkLoop(text, chunk_size, overlap, start, chunks) ==
    IF start < Len(text)
    THEN LET s == ChunkStep(text, chunk_size, overlap, start, chunks)
         IN ChunkLoop(text, chunk_size, overlap, s[1], s[2])
    ELSE chunks

\* an argument the caller did not pass (None)
NoneArg == -1

\* `x or default`: None and 0 are both replaced by the configured value
OrDefault(x, default) == IF x = NoneArg \/ x = 0 THEN default ELSE x

\* chunk_text(text, chunk_size, overlap)
ChunkText(text, chunk_size, overlap) ==
    LET cs == OrDefault(chunk_size, ChunkSize)
        ov == OrDefault(overlap, ChunkOverlap)
    IN IF text = <<>> THEN <<>>
       ELSE IF Len(text) <= cs THEN << <<text, 0, Len(text)>> >>
       ELSE ChunkLoop(text, cs, ov, 0, <<>>)

(***************************************************************************)
(* The embedding backend (external): one vector per input text.  A vector  *)
(* is modelled by the text it was computed from, so that two vectors are   *)
(* equal exactly when their inputs are.                                    *)
(***************************************************************************)
BackendVector(text) == <<text>>

NoError == "none"
EmbeddingError == "EmbeddingError"

IsBlank(text) == text = <<>> \/ Strip(text) = <<>>

\* all orders in which the backend may return the n items of one request
ResponseOrders(n) ==
    {o \in [1..n -> 1..n] : \A a, b \in 1..n : a # b => o[a] # o[b]}

\* the response taken in the order the backend returned it
SortByIndexUnsorted(data) == [i \in 1..Len(data) |-> data[i].embedding]

\* sorted(response.data, key=lambda x: x.index), then the embeddings
SortByIndex(data) ==
    [i \in 1..Len(data) |->
        data[CHOOSE k \in 1..Len(data) : data[k].index = i - 1].embedding]

\* messages are sequences of their parts: the fixed text and the cause
EmptyTextMessage == <<"Cannot embed empty text">>
FailedMessage(cause) == <<"Failed to generate embedding: ", cause>>

\* an embedding that answers a blank text with the backend's vector for it
GenerateEmbeddingBlankVector(text, cause) ==
    IF cause # NoError
    THEN [error |-> EmbeddingError, backend_called |-> TRUE, embedding |-> NULL,
          message |-> FailedMessage(cause)]
    ELSE [error |-> NoError, backend_called |-> TRUE,
          embedding |-> BackendVector(PySlice(text, 0, MaxInputChars)), message |-> <<>>]

\* EmbeddingService.generate_embedding; `cause` is the message of the
\* exception the backend call raises, NoError when it answers
GenerateEmbeddingFrom(text, cause) ==
    IF IsBlank(text)
    THEN [error |-> EmbeddingError, backend_called |-> FALSE, embedding |-> NULL,
          message |-> EmptyTextMessage]
    ELSE IF cause # NoError
    THEN [error |-> EmbeddingError, backend_called |-> TRUE, embedding |-> NULL,
          message |-> FailedMessage(cause)]
    ELSE [error |-> NoError, backend_called |-> TRUE,
          embedding |-> BackendVector(PySlice(text, 0, MaxInputChars)), message |-> <<>>]

\* an embedding that answers every input, a failed one included, with a vector
GenerateEmbeddingNeverRaises(text, backend_ok) ==
    [error |-> NoError, backend_called |-> TRUE,
     embedding |-> BackendVector(PySlice(text, 0, MaxInputChars))]

\* EmbeddingService.generate_embedding
GenerateEmbedding(text, backend_ok) ==
    IF IsBlank(text)
    THEN [error |-> EmbeddingError, backend_called |-> FALSE, embedding |-> NULL]
    ELSE IF ~backend_ok
    THEN [error |-> EmbeddingError, backend_called |-> TRUE, embedding |-> NULL]
    ELSE [error |-> NoError, backend_called |-> TRUE,
          embedding |-> BackendVector(PySlice(text, 0, MaxInputChars))]

\* EmbeddingService.generate_embeddings_batch; `order` is the order in which
\* the backend returns the items of the request
GenerateEmbeddingsBatch(texts, order, backend_ok) ==
    LET kept == SelectSeq(texts, LAMBDA t : ~IsBlank(t))
        processed_texts == [k \in 1..Len(kept) |-> PySlice(kept[k], 0, MaxInputChars)]
        data == [k \in 1..Len(processed_texts) |->
                    [index |-> order[k] - 1,
                     embedding |-> BackendVector(processed_texts[order[k]])]]
    IN IF texts = <<>> \/ processed_texts = <<>>
       THEN [error |-> NoError, embeddings |-> <<>>]
       ELSE IF ~backend_ok
       THEN [error |-> EmbeddingError, embeddings |-> <<>>]
       ELSE [error |-> NoError, embeddings |-> SortByIndex(data)]

\* the number of texts of a batch that are sent to the backend
SentCount(texts) == Len(SelectSeq(texts, LAMBDA t : ~IsBlank(t)))

\* chunks[i:i + batch_size]
BatchAt(chunks, i) ==
    SubSeq(chunks, i + 1, IF i + BatchSize < Len(chunks) THEN i + BatchSize ELSE Len(chunks))

\* rows numbered by their position in the batch only
BatchRowsRelative(tid, call, chunks, i, embeddings) ==
    LET batch == SubSeq(chunks, i + 1, IF i + BatchSize < Len(chunks) THEN i + BatchSize ELSE Len(chunks))
    IN [j0 \in 1..Len(batch) |->
          [id |-> <<call, i + j0 - 1>>,
           transcript_id |-> tid,
           chunk_index |-> j0 - 1,
           chunk_text |-> batch[j0][1],
           start_char |-> batch[j0][2],
           end_char |-> batch[j0][3],
           embedding |-> IF j0 - 1 < Len(embeddings) THEN embeddings[j0] ELSE NULL,
           token_count |-> WordCount(batch[j0][1])]]

\* the TranscriptChunk rows embed_transcript builds for the batch at offset i;
\* a row's id is the call that created it and its position
BatchRows(tid, call, chunks, i, embeddings) ==
    LET batch == BatchAt(chunks, i)
    IN [j0 \in 1..Len(batch) |->
          LET j == j0 - 1
          IN [id |-> <<call, i + j>>,
              transcript_id |-> tid,
              chunk_index |-> i + j,
              chunk_text |-> batch[j0][1],
              start_char |-> batch[j0][2],
              end_char |-> batch[j0][3],
              embedding |-> IF j < Len(embeddings) THEN embeddings[j0] ELSE NULL,
              token_count |-> WordCount(batch[j0][1])]]

Range(s) == {s[k] : k \in 1..Len(s)}

(***************************************************************************)
(* State                                                                   *)
(***************************************************************************)
VARIABLES
    transcripts,        \* the transcripts table: id -> [user_id, status, full_text]
    transcript_chunks,  \* the committed rows of the transcript_chunks table
    search_history,     \* the committed rows of the search_history table, in insertion order
    call,               \* the search call that has just returned or raised
    workers,            \* the pipeline runs that execute the embed step
    serialized,         \* whether the caller serializes the embed steps of one transcript
    ncalls,             \* embed_transcript calls started so far
    last_embed,         \* per transcript: the last embed step that ended
    chunker,            \* a chunk_text call: its arguments, loop variables and result
    embed_one,          \* a generate_embedding call: its argument and outcome
    job,                \* the processing job of a pipeline run and the run's position
    processing_jobs     \* the processing_jobs table: transcript id -> status of its job

vars == <<transcripts, transcript_chunks, search_history, call, workers,
          serialized, ncalls, last_embed, chunker, embed_one, job, processing_jobs>>

TranscriptIds == {"t1", "t2", "t3"}
Users == {"u1", "u2"}
Workers == {"w1", "w2"}
\* the runs are interchangeable: a free run of lower rank is taken first
WorkerRank(w) == IF w = "w1" THEN 1 ELSE 2

TextShort == <<"a", "b">>
TextBlank == <<" ", " ">>
TextBlankLong == <<" ", " ", " ", " ", " ", " ", " ", " ", " ", " ", " ">>
TextLong == <<"a", "a", "b", ".", " ", "b", "b", " ", "a", "b", "!", " ",
              "b", " ", "a", "\n", "\n", "a", "b", " ", "b", "a">>
EmbedTexts == {<<>>, TextShort, TextBlank, TextBlankLong, TextLong}
EmbedTranscripts == {"t1", "t2"}

IdleWorker ==
    [pc |-> "idle", tid |-> "none", text |-> <<>>, call |-> 0, chunks |-> <<>>,
     i |-> 0, all_chunks |-> <<>>, del |-> {}, snap |-> {}, deleted |-> 0,
     reordered |-> FALSE]

\* deleted: the rows the call's DELETE removed; reordered: the backend returned
\* the vectors of some batch of the call in another order than it got the texts
NoEmbed == [call |-> 0, text |-> <<>>, ret |-> 0, error |-> NoError, all_ok |-> TRUE,
            deleted |-> 0, reordered |-> FALSE]

NoCall == [kind |-> "none"]

\* no chunk_text call, no generate_embedding call, no pipeline run
NoChunker == [pc |-> "none"]
NoEmbedOne == [pc |-> "none"]
NoJob == [pc |-> "none"]
\* no row in processing_jobs
NoJobs == [t \in TranscriptIds |-> "none"]

RowIds(rows) == {r.id : r \in rows}

\* rows whose deletion another open transaction has not yet committed
LockedByOthers(w) == UNION {workers[q].del : q \in Workers \ {w}}

Active(tid) == \E w \in Workers : workers[w].pc # "idle" /\ workers[w].tid = tid

(***************************************************************************)
(* BackgroundProcessor._step_embed and EmbeddingService.embed_transcript,  *)
(* one action per await                                                    *)
(***************************************************************************)

\* _step_embed up to the call of embed_transcript
StepEmbedBegin(w, tid, text) ==
    /\ workers[w].pc = "idle"
    /\ \A q \in Workers : WorkerRank(q) < WorkerRank(w) => workers[q].pc # "idle"
    /\ ncalls <= MaxEmbedCalls
    /\ serialized => ~Active(tid)
    /\ IF text = <<>>
       THEN \* `if not transcript.full_text: return`
            UNCHANGED <<workers, ncalls>>
       ELSE /\ workers' = [workers EXCEPT ![w] =
                  [IdleWorker EXCEPT !.pc = "delete", !.tid = tid, !.text = text,
                                     !.call = ncalls + 1]]
            /\ ncalls' = ncalls + 1
    /\ UNCHANGED <<chunker, embed_one, job, processing_jobs>>
    /\ UNCHANGED <<transcripts, transcript_chunks, search_history, call, serialized,
                   last_embed>>

\* what follows the DELETE statement up to the next await: chunk_text and
\* the early return
AfterDelete(wk, deleted) ==
    LET chunks == ChunkText(wk.text, NoneArg, NoneArg)
    IN IF chunks = <<>>
       THEN [wk EXCEPT !.pc = "returned", !.del = deleted, !.snap = {}, !.chunks = chunks,
                       !.deleted = Cardinality(deleted)]
       ELSE [wk EXCEPT !.pc = "batch", !.del = deleted, !.snap = {}, !.chunks = chunks,
                       !.i = 0, !.all_chunks = <<>>, !.deleted = Cardinality(deleted)]

\* a DELETE whose WHERE clause matches no row
DeleteTargetsNone(rows, tid) == {}

\* the rows the DELETE statement of embed_transcript addresses
DeleteTargets(rows, tid) == {r \in rows : r.transcript_id = tid}

\* db.execute(delete(TranscriptChunk).where(transcript_id == ...))
EmbedDelete(w) ==
    /\ workers[w].pc = "delete"
    /\ LET targets == RowIds(DeleteTargets(transcript_chunks, workers[w].tid))
       IN IF targets \cap LockedByOthers(w) # {}
          THEN workers' = [workers EXCEPT ![w].pc = "delete_wait", ![w].snap = targets]
          ELSE workers' = [workers EXCEPT ![w] = AfterDelete(workers[w], targets)]
    /\ UNCHANGED <<chunker, embed_one, job, processing_jobs>>
    /\ UNCHANGED <<transcripts, transcript_chunks, search_history, call, serialized,
                   ncalls, last_embed>>

\* the DELETE statement goes on once the rows it waits for are unlocked; rows
\* that the other transaction deleted are skipped
EmbedDeleteResume(w) ==
    /\ workers[w].pc = "delete_wait"
    /\ workers[w].snap \cap LockedByOthers(w) = {}
    /\ workers' = [workers EXCEPT ![w] =
          AfterDelete(workers[w], workers[w].snap \cap RowIds(transcript_chunks))]
    /\ UNCHANGED <<chunker, embed_one, job, processing_jobs>>
    /\ UNCHANGED <<transcripts, transcript_chunks, search_history, call, serialized,
                   ncalls, last_embed>>

\* one iteration of the batch loop: generate_embeddings_batch and the rows
EmbedBatch(w) ==
    /\ workers[w].pc = "batch"
    /\ LET wk == workers[w]
           batch == BatchAt(wk.chunks, wk.i)
           chunk_texts == [k \in 1..Len(batch) |-> batch[k][1]]
       IN \E backend_ok \in BOOLEAN, order \in ResponseOrders(SentCount(chunk_texts)) :
            LET res == GenerateEmbeddingsBatch(chunk_texts, order, backend_ok)
            IN IF res.error # NoError
               THEN workers' = [workers EXCEPT ![w].pc = "raised"]
               ELSE workers' = [workers EXCEPT
                      ![w].all_chunks = wk.all_chunks \o
                          BatchRows(wk.tid, wk.call, wk.chunks, wk.i, res.embeddings),
                      ![w].i = wk.i + BatchSize,
                      ![w].reordered = wk.reordered \/ (\E k \in DOMAIN order : order[k] # k),
                      ![w].pc = IF wk.i + BatchSize < Len(wk.chunks) THEN "batch" ELSE "commit"]
    /\ UNCHANGED <<chunker, embed_one, job, processing_jobs>>
    /\ UNCHANGED <<transcripts, transcript_chunks, search_history, call, serialized,
                   ncalls, last_embed>>

\* a commit that loses the transaction's DELETE
CommitRowsKeepDeleted(rows, del, added) == rows \cup Range(added)

\* the table after a transaction that deleted `del` and added `added` commits
CommitRows(rows, del, added) == {r \in rows : r.id \notin del} \cup Range(added)

\* db.add_all(all_chunks); await db.commit(); return len(all_chunks)
EmbedCommit(w) ==
    /\ workers[w].pc = "commit"
    /\ transcript_chunks' = CommitRows(transcript_chunks, workers[w].del, workers[w].all_chunks)
    /\ workers' = [workers EXCEPT ![w].pc = "returned", ![w].del = {}]
    /\ UNCHANGED <<chunker, embed_one, job, processing_jobs>>
    /\ UNCHANGED <<transcripts, search_history, call, serialized, ncalls, last_embed>>

\* _step_embed after embed_transcript returned: progress 95 and commit
StepEmbedFinish(w) ==
    /\ workers[w].pc = "returned"
    /\ transcript_chunks' = CommitRows(transcript_chunks, workers[w].del, <<>>)
    /\ last_embed' = [last_embed EXCEPT ![workers[w].tid] =
          [call |-> workers[w].call, text |-> workers[w].text,
           ret |-> Len(workers[w].all_chunks), error |-> NoError, all_ok |-> @.all_ok,
           deleted |-> workers[w].deleted, reordered |-> workers[w].reordered]]
    /\ workers' = [workers EXCEPT ![w] = IdleWorker]
    /\ UNCHANGED <<chunker, embed_one, job, processing_jobs>>
    /\ UNCHANGED <<transcripts, search_history, call, serialized, ncalls>>

\* a handler whose commit also writes the rows of the batches embedded
\* before the failure (as if each batch had been added to the session)
StepEmbedExceptWritesRows(w) ==
    /\ workers[w].pc = "raised"
    /\ transcript_chunks' = CommitRows(transcript_chunks, workers[w].del, workers[w].all_chunks)
    /\ last_embed' = [last_embed EXCEPT ![workers[w].tid] =
          [call |-> workers[w].call, text |-> workers[w].text,
           ret |-> 0, error |-> EmbeddingError, all_ok |-> FALSE,
           deleted |-> workers[w].deleted, reordered |-> workers[w].reordered]]
    /\ workers' = [workers EXCEPT ![w] = IdleWorker]
    /\ UNCHANGED <<chunker, embed_one, job, processing_jobs>>
    /\ UNCHANGED <<transcripts, search_history, call, serialized, ncalls>>

\* _step_embed's `except EmbeddingError`: progress 95 and commit
StepEmbedExcept(w) ==
    /\ workers[w].pc = "raised"
    /\ transcript_chunks' = CommitRows(transcript_chunks, workers[w].del, <<>>)
    /\ last_embed' = [last_embed EXCEPT ![workers[w].tid] =
          [call |-> workers[w].call, text |-> workers[w].text,
           ret |-> 0, error |-> EmbeddingError, all_ok |-> FALSE,
           deleted |-> workers[w].deleted, reordered |-> workers[w].reordered]]
    /\ workers' = [workers EXCEPT ![w] = IdleWorker]
    /\ UNCHANGED <<chunker, embed_one, job, processing_jobs>>
    /\ UNCHANGED <<transcripts, search_history, call, serialized, ncalls>>

\* the rows embed_transcript stores for a text when every batch succeeds
RECURSIVE EmbedRows(_, _, _, _)
EmbedRows(tid, c, chunks, i) ==
    IF i >= Len(chunks) THEN <<>>
    ELSE LET batch == BatchAt(chunks, i)
             chunk_texts == [k \in 1..Len(batch) |-> batch[k][1]]
             order == [k \in 1..SentCount(chunk_texts) |-> k]
         IN BatchRows(tid, c, chunks, i,
                      GenerateEmbeddingsBatch(chunk_texts, order, TRUE).embeddings)
            \o EmbedRows(tid, c, chunks, i + BatchSize)

InitTranscripts ==
    [t \in TranscriptIds |->
        [user_id |-> IF t = "t2" THEN "u2" ELSE "u1", status |-> "processing",
         title |-> <<>>, full_text |-> <<>>]]

\* t1 has been indexed once (call 1, text TextShort); t2 never
InitEmbed ==
    /\ transcripts = [InitTranscripts EXCEPT !["t1"].full_text = TextShort]
    /\ transcript_chunks = Range(EmbedRows("t1", 1, ChunkText(TextShort, NoneArg, NoneArg), 0))
    /\ search_history = <<>>
    /\ call = NoCall
    /\ workers = [w \in Workers |-> IdleWorker]
    /\ serialized \in BOOLEAN
    /\ ncalls = 1
    /\ last_embed = [[t \in TranscriptIds |-> NoEmbed] EXCEPT
          !["t1"] = [NoEmbed EXCEPT !.call = 1, !.text = TextShort,
                                    !.ret = Len(ChunkText(TextShort, NoneArg, NoneArg))]]
    /\ chunker = NoChunker
    /\ embed_one = NoEmbedOne
    /\ job = NoJob
    /\ processing_jobs = NoJobs

NextEmbed ==
    \/ \E w \in Workers, tid \in EmbedTranscripts, text \in EmbedTexts : StepEmbedBegin(w, tid, text)
    \/ \E w \in Workers : EmbedDelete(w)
    \/ \E w \in Workers : EmbedDeleteResume(w)
    \/ \E w \in Workers : EmbedBatch(w)
    \/ \E w \in Workers : EmbedCommit(w)
    \/ \E w \in Workers : StepEmbedFinish(w)
    \/ \E w \in Workers : StepEmbedExcept(w)

SpecEmbed == InitEmbed /\ [][NextEmbed]_vars

(***************************************************************************)
(* Properties of the embedding store                                       *)
(***************************************************************************)
RowsOf(tid) == {r \in transcript_chunks : r.transcript_id = tid}

\* the rows of a transcript as the session of run w sees them
RowsSeenBy(w, tid) == {r \in RowsOf(tid) : r.id \notin workers[w].del}

\* rows are the chunks of text, written by the call `c`
IsIndexOf(rows, text, c) ==
    LET chunks == ChunkText(text, NoneArg, NoneArg)
    IN /\ Cardinality(rows) = Len(chunks)
       /\ \A r \in rows : r.id[1] = c
       /\ \A k \in 1..Len(chunks) :
            \E r \in rows : /\ r.chunk_text = chunks[k][1]
                            /\ r.start_char = chunks[k][2]
                            /\ r.end_char = chunks[k][3]

\* C1: when the caller serializes the embed calls of a transcript and each of
\* them returned successfully, the rows stored for the transcript are exactly
\* the chunks of the text of the last call, all written by that call: no row
\* of an earlier call is left, neither in the session of the call when it
\* returns nor in the table once the step has committed.
C1_ReembedReplacesChunks ==
    serialized =>
      /\ \A t \in EmbedTranscripts :
           (~Active(t) /\ last_embed[t].call > 0 /\ last_embed[t].all_ok)
              => IsIndexOf(RowsOf(t), last_embed[t].text, last_embed[t].call)
      /\ \A w \in Workers :
           (workers[w].pc = "returned" /\ last_embed[workers[w].tid].all_ok)
              => IsIndexOf(RowsSeenBy(w, workers[w].tid), workers[w].text, workers[w].call)

\* a successful re-embed that deleted the rows of an earlier call and wrote new ones
C1_Witness ==
    /\ serialized
    /\ \E t \in EmbedTranscripts :
         /\ ~Active(t)
         /\ last_embed[t].all_ok
         /\ last_embed[t].deleted > 0
         /\ RowsOf(t) # {}

\* C8: after a successful embed of N chunks (the caller serializing the calls
\* of the transcript) the call returned N and the rows of the transcript carry
\* the chunk_index values 0..N-1, each once, the row of index k holding the
\* k-th chunk of the chunker, also when N exceeds the batch size.
C8_ChunkIndexContiguous ==
    \A t \in EmbedTranscripts :
       (serialized /\ ~Active(t) /\ last_embed[t].call > 0 /\ last_embed[t].error = NoError)
          => LET chunks == ChunkText(last_embed[t].text, NoneArg, NoneArg)
                 N == Len(chunks)
             IN /\ last_embed[t].ret = N
                /\ Cardinality(RowsOf(t)) = N
                /\ {r.chunk_index : r \in RowsOf(t)} = 0..(N - 1)
                /\ \A r \in RowsOf(t) : r.chunk_text = chunks[r.chunk_index + 1][1]

\* an embed of more chunks than one batch holds has returned
C8_Witness ==
    /\ serialized
    /\ \E t \in EmbedTranscripts :
         /\ ~Active(t)
         /\ last_embed[t].error = NoError
         /\ last_embed[t].ret > BatchSize
         /\ Cardinality(RowsOf(t)) = last_embed[t].ret

ChunkIndexUnique(tid) ==
    \A r1, r2 \in RowsOf(tid) : r1.chunk_index = r2.chunk_index => r1 = r2

\* C9: when the caller serializes the embed calls of a transcript, the
\* transcript never holds rows written by two calls and chunk_index stays
\* unique; without that serialization a state with rows of two calls and a
\* repeated chunk_index is reachable (C9_Witness).
C9_SerializedNoRace ==
    serialized =>
       \A t \in EmbedTranscripts :
          /\ ChunkIndexUnique(t)
          /\ \A r1, r2 \in RowsOf(t) : r1.id[1] = r2.id[1]

\* two concurrent calls have both written their rows for one transcript
C9_Witness ==
    /\ ~serialized
    /\ \E t \in EmbedTranscripts :
         /\ ~ChunkIndexUnique(t)
         /\ \E r1, r2 \in RowsOf(t) : r1.id[1] # r2.id[1]

\* the vector the backend computes for a chunk text
VectorOf(chunk_text) == BackendVector(PySlice(chunk_text, 0, MaxInputChars))

RowVectorOwn(r) ==
    r.embedding = IF IsBlank(r.chunk_text) THEN NULL ELSE VectorOf(r.chunk_text)

\* C10: every chunk row that embed builds or stores carries the vector of its
\* own text, in whatever order the backend returned the vectors of a batch,
\* and its vector is null only if its own text is empty or whitespace.
C10_VectorOfOwnText ==
    /\ \A r \in transcript_chunks : RowVectorOwn(r)
    /\ \A w \in Workers : \A r \in Range(workers[w].all_chunks) : RowVectorOwn(r)

\* rows are stored whose vectors the backend returned out of order, next to a
\* row whose whitespace text was never sent and has no vector
C10_Witness ==
    /\ \E t \in EmbedTranscripts :
         /\ ~Active(t)
         /\ last_embed[t].error = NoError
         /\ last_embed[t].reordered
         /\ Cardinality(RowsOf(t)) > 1
    /\ \E r \in transcript_chunks : r.embedding = NULL /\ IsBlank(r.chunk_text)

(***************************************************************************)
(* The data store as the searches query it                                 *)
(***************************************************************************)
Statuses == {"pending", "processing", "completed", "failed", "archived"}

MaxLimit == 2
MaxPage == 2
MaxHistory == 3
DefaultThreshold == 70
\* a threshold below every similarity, the default and a strict one
Thresholds == {-100, 70, 90}
Weights == {3, 7, 10}

QueryC == <<"c">>
QueryB == <<"b">>
\* a query as near to the best chunk of t1 as to the chunk of t3
QueryTie == <<"b", "b", "b">>
\* a query far from the chunk of t3
QueryFar == <<"a", "a">>
Queries == {<<>>, <<" ">>, QueryC, QueryB, QueryTie, QueryFar}

\* the corpus: two transcripts of u1 and one of u2, each embedded once
\* (for the query "c" the two transcripts of u1 have the same rank)
Corpus ==
    [t \in TranscriptIds |->
        IF t = "t1" THEN [user_id |-> "u1", title |-> <<"c", "c">>, full_text |-> TextLong,
                          category_id |-> "k1"]
        ELSE IF t = "t2" THEN [user_id |-> "u2", title |-> <<"b">>, full_text |-> TextShort,
                               category_id |-> "k1"]
        ELSE [user_id |-> "u1", title |-> <<"c">>,
              full_text |-> <<"c", " ", "b", "b", "b", "b">>, category_id |-> "k2"]]

\* the category filters of a call: none, or the category k1
CategoryFilters == {{}, {"k1"}}

\* the vector store's cosine similarity (1 - cosine distance), in hundredths:
\* a vector's direction is the balance of "a" and "b" in its text, and two
\* vectors are the closer the nearer their directions are
Direction(vector) ==
    LET text == vector[1]
    IN Cardinality({i \in 1..Len(text) : text[i] = "a"})
       - Cardinality({i \in 1..Len(text) : text[i] = "b"})

SimilarityTable == <<100, 90, 85, 70, 40, 0, -20>>

CosineSimilarity(u, v) ==
    LET d == IF Direction(u) >= Direction(v) THEN Direction(u) - Direction(v)
             ELSE Direction(v) - Direction(u)
    IN SimilarityTable[IF d + 1 < Len(SimilarityTable) THEN d + 1 ELSE Len(SimilarityTable)]

\* the lexemes of a text: its letters
Lexemes(text) == {text[i] : i \in 1..Len(text)} \ (Whitespace \cup {".", "!", "?"})

\* COALESCE(title, '') || ' ' || COALESCE(full_text, '')
Document(tr) == tr.title \o <<" ">> \o tr.full_text

\* to_tsvector(document) @@ plainto_tsquery(query): every lexeme of the query
\* occurs in the document
TsMatch(document, query) ==
    Lexemes(query) # {} /\ Lexemes(query) \subseteq Lexemes(document)

\* ts_rank, in hundredths: grows with the frequency of the query's lexemes
TsRank(document, query) ==
    10 * Cardinality({i \in 1..Len(document) : document[i] \in Lexemes(query)})

\* all orders of the rows S that are non-increasing in `score`: ORDER BY
\* score DESC leaves the order of equal scores open
RECURSIVE Orderings(_)
Orderings(S) ==
    IF S = {} THEN {<<>>}
    ELSE LET top == {x \in S : \A y \in S : x.score >= y.score}
         IN UNION {{<<x>> \o rest : rest \in Orderings(S \ {x})} : x \in top}

\* a descending sort that turns equal keys around
SortedDescTiesReversed(seq, key) ==
    LET n == Len(seq)
        pos(i) == 1 + Cardinality({j \in 1..n :
                        \/ seq[j][key] > seq[i][key]
                        \/ (seq[j][key] = seq[i][key] /\ j > i)})
    IN [p \in 1..n |-> seq[CHOOSE i \in 1..n : pos(i) = p]]

\* sorted(seq, key=Key, reverse=True): stable
SortedDesc(seq, key) ==
    LET n == Len(seq)
        pos(i) == 1 + Cardinality({j \in 1..n :
                        \/ seq[j][key] > seq[i][key]
                        \/ (seq[j][key] = seq[i][key] /\ j < i)})
    IN [p \in 1..n |-> seq[CHOOSE i \in 1..n : pos(i) = p]]

\* seq[:n]
Take(seq, n) == SubSeq(seq, 1, IF n < Len(seq) THEN n ELSE Len(seq))

(***************************************************************************)
(* VectorSearchService._log_search on a session                            *)
(***************************************************************************)
PendingRollbackError == "PendingRollbackError"

\* db.add(history); await db.commit() inside try / except Exception.  A
\* failed flush leaves the session's transaction inactive; the except branch
\* logs a warning and does not roll back.
LogSearch(session, history, event, write_ok) ==
    IF session = "active" /\ write_ok
    THEN [session |-> "active", history |-> Append(history, event), warnings |-> 0]
    ELSE [session |-> "inactive", history |-> history, warnings |-> 1]

SearchEvent(user_id, query, search_type, results_count) ==
    [user_id |-> user_id, query_text |-> query, search_type |-> search_type,
     results_count |-> results_count]

Raised(error, session, history, warnings) ==
    [raised |-> error, results |-> <<>>, session |-> session, history |-> history,
     warnings |-> warnings, semantic_results |-> <<>>, keyword_results |-> <<>>,
     rows |-> <<>>]

Returned(results, lg, warnings, semantic_results, keyword_results) ==
    [raised |-> NoError, results |-> results, session |-> lg.session,
     history |-> lg.history, warnings |-> warnings + lg.warnings,
     semantic_results |-> semantic_results, keyword_results |-> keyword_results,
     rows |-> <<>>]

(***************************************************************************)
(* VectorSearchService.semantic_search                                     *)
(***************************************************************************)
\* a scope that leaves the status out
SemanticScopeAnyStatus(tr, user_id) == tr.user_id = user_id

\* WHERE t.user_id = :user_id AND t.status = 'completed'
SemanticScope(tr, user_id) == tr.user_id = user_id /\ tr.status = "completed"

\* a query without the threshold condition
AboveThresholdAlways(similarity, threshold) == TRUE

\* AND 1 - (tc.embedding <=> :query_embedding) >= :threshold
AboveThreshold(similarity, threshold) == similarity >= threshold

\* the rows of ranked_chunks before ORDER BY and LIMIT
RankedChunks(query_embedding, user_id, threshold) ==
    {[chunk_id |-> r.id, transcript_id |-> r.transcript_id, chunk_index |-> r.chunk_index,
      score |-> CosineSimilarity(r.embedding, query_embedding)] :
        r \in {c \in transcript_chunks :
                 /\ SemanticScope(transcripts[c.transcript_id], user_id)
                 /\ c.embedding # NULL
                 /\ AboveThreshold(CosineSimilarity(c.embedding, query_embedding), threshold)}}

NewGroup(row) ==
    [transcript_id |-> row.transcript_id, matching_chunks |-> <<>>, max_similarity |-> 0]

\* the loop that groups the rows by transcript, in a dict (insertion order)
RECURSIVE GroupRows(_, _, _)
GroupRows(rows, k, groups) ==
    IF k > Len(rows) THEN groups
    ELSE LET row == rows[k]
             known == {g \in 1..Len(groups) : groups[g].transcript_id = row.transcript_id}
             gs == IF known = {} THEN Append(groups, NewGroup(row)) ELSE groups
             g == CHOOSE x \in 1..Len(gs) : gs[x].transcript_id = row.transcript_id
             chunk == [chunk_id |-> row.chunk_id, chunk_index |-> row.chunk_index,
                       similarity_score |-> row.score]
         IN GroupRows(rows, k + 1,
               [gs EXCEPT ![g].matching_chunks = Append(@, chunk),
                          ![g].max_similarity = IF row.score > @ THEN row.score ELSE @])

\* key=lambda x: x["max_similarity"]
MaxSimilarityKey == "max_similarity"

\* the outcomes of semantic_search on a session
SemanticSearch(session, history, query, user_id, limit, threshold, backend_ok, log_ok) ==
    LET emb == GenerateEmbedding(query, backend_ok)
    IN IF emb.error # NoError THEN {Raised(emb.error, session, history, 0)}
       ELSE IF session # "active" THEN {Raised(PendingRollbackError, session, history, 0)}
       ELSE {LET results == Take(SortedDesc(GroupRows(Take(rows, limit * 2), 1, <<>>),
                                            MaxSimilarityKey), limit)
                 lg == LogSearch(session, history,
                          SearchEvent(user_id, query, "semantic", Len(results)), log_ok)
             IN [Returned(results, lg, 0, <<>>, <<>>) EXCEPT !.rows = Take(rows, limit * 2)] :
                rows \in Orderings(RankedChunks(emb.embedding, user_id, threshold))}

(***************************************************************************)
(* VectorSearchService.keyword_search                                      *)
(***************************************************************************)
\* WHERE t.user_id = :user_id AND t.status = 'completed'
KeywordScope(tr, user_id) == tr.user_id = user_id /\ tr.status = "completed"

\* ts_headline with StartSel=**, StopSel=**: the body with the matched lexemes marked
RECURSIVE Headline(_, _)
Headline(text, query) ==
    IF text = <<>> THEN <<>>
    ELSE (IF Head(text) \in Lexemes(query) THEN <<"**", Head(text), "**">> ELSE <<Head(text)>>)
         \o Headline(Tail(text), query)

\* the rows of the full-text query before ORDER BY, LIMIT and OFFSET
KeywordMatches(query, user_id) ==
    {[transcript_id |-> t,
      score |-> TsRank(Document(transcripts[t]), query),
      snippet |-> Headline(transcripts[t].full_text, query)] :
        t \in {x \in TranscriptIds :
                 /\ KeywordScope(transcripts[x], user_id)
                 /\ TsMatch(Document(transcripts[x]), query)}}

\* LIMIT :limit OFFSET :offset
LimitOffset(rows, limit, offset) ==
    SubSeq(rows, offset + 1, IF offset + limit < Len(rows) THEN offset + limit ELSE Len(rows))

\* the outcomes of keyword_search on a session
KeywordSearch(session, history, query, user_id, limit, page, log_ok) ==
    LET offset == (page - 1) * limit
    IN IF session # "active" THEN {Raised(PendingRollbackError, session, history, 0)}
       ELSE {LET page_rows == LimitOffset(rows, limit, offset)
                 results == [k \in 1..Len(page_rows) |->
                               [transcript_id |-> page_rows[k].transcript_id,
                                snippet |-> page_rows[k].snippet,
                                rank_score |-> page_rows[k].score]]
                 lg == LogSearch(session, history,
                          SearchEvent(user_id, query, "keyword", Len(results)), log_ok)
             IN Returned(results, lg, 0, <<>>, <<>>) :
                rows \in Orderings(KeywordMatches(query, user_id))}

(***************************************************************************)
(* VectorSearchService.combined_search                                     *)
(***************************************************************************)
\* the entry made for a semantic result
SeedSemantic(result, semantic_weight) ==
    [transcript_id |-> result.transcript_id,
     matching_chunks |-> result.matching_chunks,
     max_similarity |-> result.max_similarity,
     snippet |-> NULL,
     semantic_score |-> result.max_similarity,
     keyword_score |-> 0,
     combined_score |-> result.max_similarity * semantic_weight]

\* a keyword result that replaces the fused score instead of adding to it
FoldKeywordOverwrite(entry, result, keyword_weight) ==
    [entry EXCEPT !.keyword_score = result.rank_score,
                  !.snippet = result.snippet,
                  !.combined_score = result.rank_score * keyword_weight]

\* a keyword result folded into the entry of its transcript
FoldKeyword(entry, result, keyword_weight) ==
    [entry EXCEPT !.keyword_score = result.rank_score,
                  !.snippet = result.snippet,
                  !.combined_score = @ + result.rank_score * keyword_weight]

\* the entry made for a keyword result whose transcript has none yet
NewKeyword(result, keyword_weight) ==
    [transcript_id |-> result.transcript_id,
     matching_chunks |-> <<>>,
     max_similarity |-> NULL,
     snippet |-> result.snippet,
     semantic_score |-> 0,
     keyword_score |-> result.rank_score,
     combined_score |-> result.rank_score * keyword_weight]

\* the loop over the keyword results
RECURSIVE FoldKeywordResults(_, _, _, _)
FoldKeywordResults(combined, keyword_results, k, keyword_weight) ==
    IF k > Len(keyword_results) THEN combined
    ELSE LET result == keyword_results[k]
             known == {e \in 1..Len(combined) :
                          combined[e].transcript_id = result.transcript_id}
         IN FoldKeywordResults(
               IF known # {}
               THEN [combined EXCEPT ![CHOOSE e \in known : TRUE] =
                        FoldKeyword(@, result, keyword_weight)]
               ELSE Append(combined, NewKeyword(result, keyword_weight)),
               keyword_results, k + 1, keyword_weight)

\* key=lambda x: x["combined_score"]
CombinedScoreKey == "combined_score"

\* a fusion that cuts the accumulator to `limit` entries before it sorts
CombineTruncateFirst(semantic_results, keyword_results, limit, semantic_weight, keyword_weight) ==
    LET seeded == [k \in 1..Len(semantic_results) |->
                      SeedSemantic(semantic_results[k], semantic_weight)]
        combined == FoldKeywordResults(seeded, keyword_results, 1, keyword_weight)
    IN SortedDesc(Take(combined, limit), CombinedScoreKey)

\* the fusion of the two result lists
Combine(semantic_results, keyword_results, limit, semantic_weight, keyword_weight) ==
    LET seeded == [k \in 1..Len(semantic_results) |->
                      SeedSemantic(semantic_results[k], semantic_weight)]
        combined == FoldKeywordResults(seeded, keyword_results, 1, keyword_weight)
    IN Take(SortedDesc(combined, CombinedScoreKey), limit)

\* the outcomes of combined_search on a session; log_ok[1..3] says which of
\* the three log writes (semantic, keyword, combined) succeed
CombinedSearch(session, history, query, user_id, limit, semantic_weight, keyword_weight, backend_ok, log_ok) ==
    UNION {
      IF so.raised # NoError THEN {so}
      ELSE UNION {
        IF ko.raised # NoError THEN {[ko EXCEPT !.warnings = so.warnings + ko.warnings]}
        ELSE {LET results == Combine(so.results, ko.results, limit,
                                     semantic_weight, keyword_weight)
                  lg == LogSearch(ko.session, ko.history,
                           SearchEvent(user_id, query, "combined", Len(results)), log_ok[3])
              IN Returned(results, lg, so.warnings + ko.warnings, so.results, ko.results)}
        : ko \in KeywordSearch(so.session, so.history, query, user_id, limit * 2, 1, log_ok[2])}
      : so \in SemanticSearch(session, history, query, user_id, limit * 2,
                              DefaultThreshold, backend_ok, log_ok[1])}

(***************************************************************************)
(* The search calls, each on a session of its own                          *)
(***************************************************************************)
CallRecord(kind, user_id, query, limit, page, threshold, sw, kw, category_ids, backend_ok, out) ==
    [kind |-> kind, user_id |-> user_id, query |-> query, limit |-> limit, page |-> page,
     similarity_threshold |-> threshold, semantic_weight |-> sw, keyword_weight |-> kw,
     category_ids |-> category_ids,
     backend_ok |-> backend_ok,
     events_before |-> Len(search_history),
     raised |-> out.raised,
     results |-> out.results,
     total |-> Len(out.results),
     search_type |-> kind,
     warnings |-> out.warnings,
     semantic_results |-> out.semantic_results,
     keyword_results |-> out.keyword_results,
     rows |-> out.rows]

\* a call starts when the response of the one before has been handed over;
\* MaxHistory bounds the search_history table
CanSearch == call = NoCall /\ Len(search_history) + 3 <= MaxHistory

\* the log writes of one call that fail: none, or the k-th (after a failed
\* write the session is inactive and every later write of the call fails too)
LogOutcomes(n) == {[k \in 1..n |-> k # f] : f \in 0..n}

\* semantic_search and keyword_search take category_ids and read it nowhere
SemanticSearchCall(user_id, query, limit, threshold, category_ids) ==
    /\ CanSearch
    /\ \E backend_ok \in BOOLEAN, log_ok \in LogOutcomes(1) :
         \E out \in SemanticSearch("active", search_history, query, user_id, limit,
                                   threshold, backend_ok, log_ok[1]) :
            /\ call' = CallRecord("semantic", user_id, query, limit, 1, threshold, 0, 0,
                                  category_ids, backend_ok, out)
            /\ search_history' = out.history
    /\ UNCHANGED <<chunker, embed_one, job, processing_jobs>>
    /\ UNCHANGED <<transcripts, transcript_chunks, workers, serialized, ncalls, last_embed>>

KeywordSearchCall(user_id, query, limit, page, category_ids) ==
    /\ CanSearch
    /\ \E log_ok \in LogOutcomes(1) :
         \E out \in KeywordSearch("active", search_history, query, user_id, limit, page,
                                  log_ok[1]) :
            /\ call' = CallRecord("keyword", user_id, query, limit, page, 0, 0, 0, category_ids,
                                  TRUE, out)
            /\ search_history' = out.history
    /\ UNCHANGED <<chunker, embed_one, job, processing_jobs>>
    /\ UNCHANGED <<transcripts, transcript_chunks, workers, serialized, ncalls, last_embed>>

CombinedSearchCall(user_id, query, limit, semantic_weight, keyword_weight) ==
    /\ CanSearch
    /\ \E backend_ok \in BOOLEAN, log_ok \in LogOutcomes(3) :
         \E out \in CombinedSearch("active", search_history, query, user_id, limit,
                                   semantic_weight, keyword_weight, backend_ok, log_ok) :
            /\ call' = CallRecord("combined", user_id, query, limit, 1, DefaultThreshold,
                                  semantic_weight, keyword_weight, {}, backend_ok, out)
            /\ search_history' = out.history
    /\ UNCHANGED <<chunker, embed_one, job, processing_jobs>>
    /\ UNCHANGED <<transcripts, transcript_chunks, workers, serialized, ncalls, last_embed>>

\* the response (or the exception) of the call reaches the caller
Deliver ==
    /\ call # NoCall
    /\ call' = NoCall
    /\ UNCHANGED <<chunker, embed_one, job, processing_jobs>>
    /\ UNCHANGED <<transcripts, transcript_chunks, search_history, workers, serialized,
                   ncalls, last_embed>>

\* the statuses the model gives a transcript: all of them for t1, two for the others
StatusesOf(t) == IF t = "t1" THEN Statuses ELSE {"processing", "completed"}

\* a transcript's status column is updated, between two search calls
UpdateStatus(t, status) ==
    /\ call = NoCall
    /\ transcripts[t].status # status
    /\ transcripts' = [transcripts EXCEPT ![t].status = status]
    /\ UNCHANGED <<chunker, embed_one, job, processing_jobs>>
    /\ UNCHANGED <<transcript_chunks, search_history, call, workers, serialized, ncalls,
                   last_embed>>

CorpusCall(t) == IF t = "t1" THEN 1 ELSE IF t = "t2" THEN 2 ELSE 3

InitSearch ==
    /\ transcripts = [t \in TranscriptIds |->
          [user_id |-> Corpus[t].user_id, status |-> "processing",
           title |-> Corpus[t].title, full_text |-> Corpus[t].full_text]]
    /\ transcript_chunks = UNION {
          Range(EmbedRows(t, CorpusCall(t), ChunkText(Corpus[t].full_text, NoneArg, NoneArg), 0)) :
             t \in TranscriptIds}
    /\ search_history = <<>>
    /\ call = NoCall
    /\ workers = [w \in Workers |-> IdleWorker]
    /\ serialized = TRUE
    /\ ncalls = Cardinality(TranscriptIds)
    /\ last_embed = [t \in TranscriptIds |-> NoEmbed]
    /\ chunker = NoChunker
    /\ embed_one = NoEmbedOne
    /\ job = NoJob
    /\ processing_jobs = NoJobs

NextSearch ==
    \/ \E u \in Users, q \in Queries, l \in 1..MaxLimit, th \in Thresholds,
          cats \in CategoryFilters :
          SemanticSearchCall(u, q, l, th, cats)
    \/ \E u \in Users, q \in Queries, l \in 1..MaxLimit, p \in 1..MaxPage,
          cats \in CategoryFilters :
          KeywordSearchCall(u, q, l, p, cats)
    \/ \E u \in Users, q \in Queries, l \in 1..MaxLimit, sw \in Weights, kw \in Weights :
          CombinedSearchCall(u, q, l, sw, kw)
    \/ Deliver
    \/ \E t \in TranscriptIds : \E st \in StatusesOf(t) : UpdateStatus(t, st)

SpecSearch == InitSearch /\ [][NextSearch]_vars

(***************************************************************************)
(* Properties of the searches                                              *)
(***************************************************************************)
CallReturned(c) == c # NoCall /\ c.raised = NoError

ResultIds(results) == {results[k].transcript_id : k \in 1..Len(results)}

\* C2: every transcript in the result list of a search call (and in the two
\* sub-results of a combined call) is owned by the caller and has status
\* "completed".
C2_OnlyOwnCompleted ==
    CallReturned(call) =>
       \A t \in ResultIds(call.results) \cup ResultIds(call.semantic_results)
                \cup ResultIds(call.keyword_results) :
          /\ transcripts[t].user_id = call.user_id
          /\ transcripts[t].status = "completed"

\* a call returned results while an indexed transcript of the caller is
\* archived and a transcript of another user is completed
C2_Witness ==
    /\ CallReturned(call)
    /\ call.kind = "combined"
    /\ call.user_id = "u1"
    /\ call.results # <<>>
    /\ transcripts["t1"].status = "archived"
    /\ transcripts["t2"].status = "completed"

\* the best similarity of a transcript's embedded chunks to a query
BestSimilarity(t, query) ==
    Max({CosineSimilarity(c.embedding, VectorOf(query)) :
           c \in {r \in transcript_chunks : r.transcript_id = t /\ r.embedding # NULL}})

\* C3: semantic_search returns no transcript whose best chunk similarity is
\* below the threshold; every listed chunk has similarity >= threshold, and
\* when no chunk of the caller's completed transcripts reaches the threshold
\* the result list is empty.
C3_SemanticThreshold ==
    (CallReturned(call) /\ call.kind = "semantic") =>
       /\ \A k \in 1..Len(call.results) :
            /\ BestSimilarity(call.results[k].transcript_id, call.query)
                  >= call.similarity_threshold
            /\ \A c \in Range(call.results[k].matching_chunks) :
                  c.similarity_score >= call.similarity_threshold
       /\ (\A c \in transcript_chunks :
              (/\ transcripts[c.transcript_id].user_id = call.user_id
               /\ transcripts[c.transcript_id].status = "completed"
               /\ c.embedding # NULL)
              => CosineSimilarity(c.embedding, VectorOf(call.query)) < call.similarity_threshold)
          => call.results = <<>>

\* a search with threshold 0.9 returned nothing although a completed
\* transcript of the caller has a chunk of similarity 0.7
C3_Witness ==
    /\ CallReturned(call)
    /\ call.kind = "semantic"
    /\ call.similarity_threshold = 90
    /\ call.results = <<>>
    /\ \E t \in TranscriptIds :
         /\ transcripts[t].user_id = call.user_id
         /\ transcripts[t].status = "completed"
         /\ BestSimilarity(t, call.query) >= 70

\* the entry of sub-result `results` for transcript t, as a set
EntryOf(results, t) == {results[k] : k \in {j \in 1..Len(results) : results[j].transcript_id = t}}

\* C4: in a combined result the fused score is semantic_score *
\* semantic_weight + keyword_score * keyword_weight with the scores of the
\* two sub-results, a missing sub-result counting 0, for all weights.
C4_CombinedScore ==
    (CallReturned(call) /\ call.kind = "combined") =>
       \A k \in 1..Len(call.results) :
          LET r == call.results[k]
              sem == EntryOf(call.semantic_results, r.transcript_id)
              kwd == EntryOf(call.keyword_results, r.transcript_id)
              sscore == IF sem = {} THEN 0 ELSE (CHOOSE e \in sem : TRUE).max_similarity
              kscore == IF kwd = {} THEN 0 ELSE (CHOOSE e \in kwd : TRUE).rank_score
          IN /\ sem # {} \/ kwd # {}
             /\ r.semantic_score = sscore
             /\ r.keyword_score = kscore
             /\ r.combined_score = sscore * call.semantic_weight + kscore * call.keyword_weight

\* a combined result with a transcript found by both searches and one found
\* by the keyword search only, under weights that do not sum to 1
C4_Witness ==
    /\ CallReturned(call)
    /\ call.kind = "combined"
    /\ call.semantic_weight + call.keyword_weight # 10
    /\ \E t \in ResultIds(call.results) :
         t \in ResultIds(call.semantic_results) /\ t \in ResultIds(call.keyword_results)
    /\ \E t \in ResultIds(call.results) :
         t \notin ResultIds(call.semantic_results) /\ t \in ResultIds(call.keyword_results)

\* C5: a search call that returns, all of its log writes having succeeded,
\* has added exactly one SearchEvent, whose mode is the mode of the call.
C5_OneEventPerCall ==
    (CallReturned(call) /\ call.warnings = 0) =>
       /\ Len(search_history) = call.events_before + 1
       /\ search_history[Len(search_history)].search_type = call.kind

\* C6: a failed log write never fails the search call it belongs to.
C6_LogFailureSwallowed ==
    (call # NoCall /\ call.warnings > 0) => call.raised = NoError

\* C7: when the query cannot be embedded (blank query or backend failure)
\* semantic_search and combined_search raise EmbeddingError: nothing is
\* returned, neither sub-search has produced a list, and no SearchEvent is
\* recorded.
C7_EmbedFailureRaises ==
    (/\ call # NoCall
     /\ call.kind \in {"semantic", "combined"}
     /\ (IsBlank(call.query) \/ ~call.backend_ok)) =>
       /\ call.raised = EmbeddingError
       /\ call.results = <<>>
       /\ call.semantic_results = <<>>
       /\ call.keyword_results = <<>>
       /\ Len(search_history) = call.events_before

\* a combined search raised on a backend failure although the keyword search
\* alone would have found transcripts
C7_Witness ==
    /\ call # NoCall
    /\ call.kind = "combined"
    /\ ~call.backend_ok
    /\ call.raised = EmbeddingError
    /\ KeywordMatches(call.query, call.user_id) # {}

(***************************************************************************)
(* EmbeddingService.generate_embedding called on its own                   *)
(***************************************************************************)
MaxTextLen == 3
Alphabet == {"a", " ", "\n"}
ShortTexts == UNION {[1..n -> Alphabet] : n \in 0..MaxTextLen}
OneTexts == ShortTexts \cup {TextLong, TextBlankLong}
BackendCauses == {"timeout", "rate limit"}

\* await generate_embedding(text): the call and its outcome
GenerateEmbeddingCall(text, cause) ==
    /\ embed_one = NoEmbedOne
    /\ LET res == GenerateEmbeddingFrom(text, cause)
       IN embed_one' = [pc |-> IF res.error = NoError THEN "returned" ELSE "raised",
                        text |-> text, cause |-> cause, error |-> res.error,
                        backend_called |-> res.backend_called,
                        embedding |-> res.embedding, message |-> res.message]
    /\ UNCHANGED <<transcripts, transcript_chunks, search_history, call, workers,
                   serialized, ncalls, last_embed, chunker, job, processing_jobs>>

\* the caller has taken the outcome
GenerateEmbeddingDone ==
    /\ embed_one # NoEmbedOne
    /\ embed_one' = NoEmbedOne
    /\ UNCHANGED <<transcripts, transcript_chunks, search_history, call, workers,
                   serialized, ncalls, last_embed, chunker, job, processing_jobs>>

InitEmbedOne ==
    /\ transcripts = InitTranscripts
    /\ transcript_chunks = {}
    /\ search_history = <<>>
    /\ call = NoCall
    /\ workers = [w \in Workers |-> IdleWorker]
    /\ serialized = TRUE
    /\ ncalls = 0
    /\ last_embed = [t \in TranscriptIds |-> NoEmbed]
    /\ chunker = NoChunker
    /\ embed_one = NoEmbedOne
    /\ job = NoJob
    /\ processing_jobs = NoJobs

NextEmbedOne ==
    \/ \E text \in OneTexts, cause \in BackendCauses \cup {NoError} : GenerateEmbeddingCall(text, cause)
    \/ GenerateEmbeddingDone

SpecEmbedOne == InitEmbedOne /\ [][NextEmbedOne]_vars

\* C11: generate_embedding of an empty or whitespace-only text raises
\* EmbeddingError without calling the backend and returns no vector; a backend
\* failure on a non-blank text raises EmbeddingError with a message that
\* contains the cause's message; otherwise it returns the backend's vector of
\* the text cut to the input limit.
C11_EmptyTextRaises ==
    embed_one # NoEmbedOne =>
       /\ IsBlank(embed_one.text) =>
             /\ embed_one.pc = "raised"
             /\ embed_one.error = EmbeddingError
             /\ ~embed_one.backend_called
             /\ embed_one.embedding = NULL
       /\ (~IsBlank(embed_one.text) /\ embed_one.cause # NoError) =>
             /\ embed_one.pc = "raised"
             /\ embed_one.error = EmbeddingError
             /\ embed_one.embedding = NULL
             /\ \E k \in 1..Len(embed_one.message) : embed_one.message[k] = embed_one.cause
       /\ (~IsBlank(embed_one.text) /\ embed_one.cause = NoError) =>
             /\ embed_one.pc = "returned"
             /\ embed_one.embedding = VectorOf(embed_one.text)

\* a whitespace-only text was refused although the backend would have answered
C11_Witness ==
    /\ embed_one # NoEmbedOne
    /\ embed_one.text # <<>>
    /\ IsBlank(embed_one.text)
    /\ embed_one.cause = NoError
    /\ embed_one.pc = "raised"

(***************************************************************************)
(* EmbeddingService.chunk_text called on its own, one action per iteration *)
(* of its while loop                                                       *)
(***************************************************************************)
MaxIter == 26

\* n times the character c
Repeat(c, n) == [k \in 1..n |-> c]

\* 25 characters of prose without delimiter (2500 at the scale of 1:100)
TextPlain == Repeat("a", 25)
\* ". " at offset 4 of a window of 8, then prose
TextHalf == <<"a", "a", "a", "a", ".", " ">> \o Repeat("a", 8)
\* ". " at offset 2 and "! " at offset 5 of the first window
TextSecond == <<"a", "a", ".", " ", "a", "!", " ">> \o Repeat("a", 6)
\* ". " at offset 5 and "\n" at offset 7 of the first window
TextFirst == Repeat("a", 5) \o <<".", " ", "\n">> \o Repeat("a", 4)
\* a chunk, then only whitespace
TextTail == <<"a", "b">> \o Repeat(" ", 5)
\* whitespace, then a chunk
TextHead == Repeat(" ", 3) \o <<"a", "b">>
\* two words that a whitespace-only window separates
TextGap == Repeat("a", 4) \o Repeat(" ", 7) \o <<"a">>

LongTexts == {TextPlain, TextHalf, TextSecond, TextFirst, TextTail, TextHead, TextGap,
              TextLong, TextBlankLong}

\* the calls chunk_text(text, chunk_size, overlap); an overlap of 0 is passed as such
ChunkCalls ==
    (ShortTexts \X {NoneArg, 1, 2} \X {NoneArg, 0, 1, 2, 3})
       \cup (LongTexts \X {NoneArg, 2, 4, 10} \X {NoneArg, 0, 1, 2, 3})

\* a short path that strips the text as the loop does
ShortPathStripped(text) == IF text = <<>> THEN <<>> ELSE << <<Strip(text), 0, Len(text)>> >>

\* `return [(text, 0, len(text))] if text else []`
ShortPath(text) == IF text = <<>> THEN <<>> ELSE << <<text, 0, Len(text)>> >>

\* chunk_text up to the while loop
ChunkTextCall(text, chunk_size, overlap) ==
    /\ chunker = NoChunker
    /\ LET cs == OrDefault(chunk_size, ChunkSize)
           ov == OrDefault(overlap, ChunkOverlap)
           args == [text |-> text, chunk_size_arg |-> chunk_size, overlap_arg |-> overlap,
                    chunk_size |-> cs, overlap |-> ov, iter |-> 0,
                    window |-> <<0, 0>>]
       IN IF text = <<>> \/ Len(text) <= cs
          THEN chunker' = args @@ [pc |-> "done", start |-> 0, chunks |-> ShortPath(text)]
          ELSE chunker' = args @@ [pc |-> "loop", start |-> 0, chunks |-> <<>>]
    /\ UNCHANGED <<transcripts, transcript_chunks, search_history, call, workers,
                   serialized, ncalls, last_embed, embed_one, job, processing_jobs>>

\* one iteration of `while start < len(text)`
ChunkIterate ==
    /\ chunker.pc = "loop"
    /\ chunker.start < Len(chunker.text)
    /\ chunker.iter < MaxIter
    /\ LET s == ChunkStep(chunker.text, chunker.chunk_size, chunker.overlap,
                          chunker.start, chunker.chunks)
       IN chunker' = [chunker EXCEPT
             !.start = s[1], !.chunks = s[2], !.iter = @ + 1,
             !.window = <<chunker.start,
                          WindowEnd(chunker.text, chunker.chunk_size, chunker.start)>>]
    /\ UNCHANGED <<transcripts, transcript_chunks, search_history, call, workers,
                   serialized, ncalls, last_embed, embed_one, job, processing_jobs>>

\* the loop condition fails: return chunks
ChunkReturn ==
    /\ chunker.pc = "loop"
    /\ chunker.start >= Len(chunker.text)
    /\ chunker' = [chunker EXCEPT !.pc = "done"]
    /\ UNCHANGED <<transcripts, transcript_chunks, search_history, call, workers,
                   serialized, ncalls, last_embed, embed_one, job, processing_jobs>>

\* the caller has taken the chunks
ChunkDone ==
    /\ chunker.pc = "done"
    /\ chunker' = NoChunker
    /\ UNCHANGED <<transcripts, transcript_chunks, search_history, call, workers,
                   serialized, ncalls, last_embed, embed_one, job, processing_jobs>>

InitChunk == InitEmbedOne

NextChunk ==
    \/ \E c \in ChunkCalls : ChunkTextCall(c[1], c[2], c[3])
    \/ ChunkIterate
    \/ ChunkReturn
    \/ ChunkDone

SpecChunk == InitChunk /\ [][NextChunk]_vars

\* the text holds none of the delimiters
NoDelimiter(text) == \A k \in 1..Len(Delimiters) : RFind(text, Delimiters[k]) = -1

C13_StartStrictlyIncreases ==
    [][(chunker.pc = "loop" /\ chunker'.pc = "loop" /\ chunker'.iter = chunker.iter + 1)
          => (chunker'.start > chunker.start /\ chunker'.start >= 0)]_vars

PlainStarts(n, chunk_size, overlap) ==
    {k * (chunk_size - overlap) : k \in {j \in 0..n : j * (chunk_size - overlap) < n}}

EndAtOrPastHalf(text, start, chunk_size) ==
    LET window == PySlice(text, start, start + chunk_size)
        good == {k \in 1..Len(Delimiters) : 2 * RFind(window, Delimiters[k]) >= chunk_size}
    IN IF good = {} THEN start + chunk_size
       ELSE start + RFind(window, Delimiters[Min(good)]) + Len(Delimiters[Min(good)])

\* C20: the end of a window that does not reach the end of the text is just
\* after the last occurrence of the first delimiter, in priority order, whose
\* last occurrence lies at or past chunk_size * 0.5 in the window, an
\* occurrence at exactly chunk_size * 0.5 included; start + chunk_size when
\* there is none.
C20_SnapAtOrPastHalf ==
    (/\ chunker # NoChunker
     /\ chunker.iter > 0
     /\ chunker.window[1] >= 0
     /\ chunker.window[1] + chunker.chunk_size < Len(chunker.text)) =>
       chunker.window[2] = EndAtOrPastHalf(chunker.text, chunker.window[1], chunker.chunk_size)

(***************************************************************************)
(* The order of the semantic result                                        *)
(***************************************************************************)
\* the place of a transcript's first chunk among the rows of the similarity query
FirstArrival(rows, transcript_id) ==
    CHOOSE k \in 1..Len(rows) :
        /\ rows[k].transcript_id = transcript_id
        /\ \A j \in 1..(k - 1) : rows[j].transcript_id # transcript_id

C16_MaxSimilarityIsHighest ==
    (CallReturned(call) /\ call.kind = "semantic") =>
        \A i \in 1..Len(call.results) :
            LET chunks == call.results[i].matching_chunks
            IN /\ \E k \in 1..Len(chunks) :
                     chunks[k].similarity_score = call.results[i].max_similarity
               /\ \A k \in 1..Len(chunks) :
                     chunks[k].similarity_score <= call.results[i].max_similarity

(***************************************************************************)
(* The order of the combined result                                        *)
(***************************************************************************)
\* the fused score of a transcript, from the two sub-results of a call
FusedScore(c, t) ==
    LET sem == EntryOf(c.semantic_results, t)
        kwd == EntryOf(c.keyword_results, t)
    IN (IF sem = {} THEN 0 ELSE (CHOOSE e \in sem : TRUE).max_similarity) * c.semantic_weight
       + (IF kwd = {} THEN 0 ELSE (CHOOSE e \in kwd : TRUE).rank_score) * c.keyword_weight

\* C17: the result of combined_search holds each transcript at most once and
\* only transcripts of its semantic or its keyword sub-result, each of which
\* is a result of that search for the same owner and query with limit * 2; it
\* is ordered by combined_score, highest first, and is the first `limit`
\* entries of that order over the whole union of the two sub-results
C17_CombinedOrder ==
    (CallReturned(call) /\ call.kind = "combined") =>
        LET r == call.results
            union == ResultIds(call.semantic_results) \cup ResultIds(call.keyword_results)
        IN /\ \A i, j \in 1..Len(r) : i # j => r[i].transcript_id # r[j].transcript_id
           /\ ResultIds(r) \subseteq union
           /\ \E so \in SemanticSearch("active", <<>>, call.query, call.user_id,
                                        call.limit * 2, DefaultThreshold, TRUE, TRUE) :
                 so.results = call.semantic_results
           /\ \E ko \in KeywordSearch("active", <<>>, call.query, call.user_id,
                                       call.limit * 2, 1, TRUE) :
                 ko.results = call.keyword_results
           /\ \A i, j \in 1..Len(r) : i < j => r[i].combined_score >= r[j].combined_score
           /\ Len(r) = IF Cardinality(union) < call.limit THEN Cardinality(union)
                       ELSE call.limit
           /\ \A t \in union \ ResultIds(r) :
                 \A i \in 1..Len(r) : r[i].combined_score >= FusedScore(call, t)

\* a combined call with limit 1 whose sub-results hold two transcripts, the
\* one that the semantic search returned second being the one returned
C17_Witness ==
    /\ CallReturned(call)
    /\ call.kind = "combined"
    /\ call.limit = 1
    /\ Len(call.semantic_results) = 2
    /\ Len(call.results) = 1
    /\ call.results[1].transcript_id = call.semantic_results[2].transcript_id
    /\ call.results[1].combined_score > FusedScore(call, call.semantic_results[1].transcript_id)

(***************************************************************************)
(* The pages of keyword_search                                             *)
(***************************************************************************)
\* the transcript ids of a list of rows or results, in order
IdsOf(seq) == [k \in 1..Len(seq) |-> seq[k].transcript_id]

\* C18: keyword_search with page p and limit L returns the matches at
\* positions (p-1)*L+1 .. p*L of the matches in the order of their rank,
\* highest first, its `total` is the number of results on the page, and on
\* the unchanged store no other page holds a transcript of this page
C18_KeywordPages ==
    (CallReturned(call) /\ call.kind = "keyword") =>
        /\ call.total = Len(call.results)
        /\ \E rows \in Orderings(KeywordMatches(call.query, call.user_id)) :
              IdsOf(call.results)
                 = IdsOf(LimitOffset(rows, call.limit, (call.page - 1) * call.limit))
        /\ \A p \in 1..MaxPage :
              p # call.page =>
                \A out \in KeywordSearch("active", <<>>, call.query, call.user_id,
                                          call.limit, p, TRUE) :
                    ResultIds(out.results) \cap ResultIds(call.results) = {}

(***************************************************************************)
(* BackgroundProcessor.process_upload and process_text_paste: the pipeline *)
(* of one job, one action per step                                         *)
(***************************************************************************)
\* what the transcription service returns as the text of a file
TranscribedTexts == {<<>>, TextShort, TextLong}
UploadTranscripts == {"t1", "t2"}
PasteTranscripts == {"t3"}

\* the worker that runs the pipeline
PipelineWorker == "w1"

\* transcripts as the upload endpoints (pending, no text yet) and the paste
\* endpoint (processing, text given) create them; no chunk rows yet
InitPipeline ==
    /\ transcripts = [t \in TranscriptIds |->
          [user_id |-> Corpus[t].user_id,
           status |-> IF t \in PasteTranscripts THEN "none" ELSE "pending",
           title |-> Corpus[t].title,
           full_text |-> <<>>]]
    /\ transcript_chunks = {}
    /\ search_history = <<>>
    /\ call = NoCall
    /\ workers = [w \in Workers |-> IdleWorker]
    /\ serialized = TRUE
    /\ ncalls = 0
    /\ last_embed = [t \in TranscriptIds |-> NoEmbed]
    /\ chunker = NoChunker
    /\ embed_one = NoEmbedOne
    /\ job = NoJob
    /\ processing_jobs = [t \in TranscriptIds |->
          IF t \in PasteTranscripts THEN "none" ELSE "queued"]

\* no pipeline is running
JobIdle == job.pc \in {"none", "done"}

\* the commit of the job row: the table holds the status of the run's job
CommitJob == processing_jobs' = [processing_jobs EXCEPT ![job'.transcript_id] = job'.status]

\* create_transcript: a transcript of pasted text in status "processing" and
\* its job in status "queued"; no background task is added
CreateTranscript(t) ==
    /\ transcripts[t].status = "none"
    /\ transcripts' = [transcripts EXCEPT ![t].status = "processing",
                                          ![t].full_text = Corpus[t].full_text]
    /\ processing_jobs' = [processing_jobs EXCEPT ![t] = "queued"]
    /\ UNCHANGED <<transcript_chunks, search_history, call, workers, serialized, ncalls,
                   last_embed, chunker, embed_one, job>>

\* process_upload up to the call of _step_transcribe: job.start(), progress 5
\* (the background task that the upload endpoint added runs once)
ProcessUpload(t) ==
    /\ JobIdle
    /\ transcripts[t].status = "pending"
    /\ processing_jobs[t] = "queued"
    /\ job' = [pc |-> "transcribe", kind |-> "upload", transcript_id |-> t,
               status |-> "processing", progress_percent |-> 5, embed_raised |-> FALSE,
               steps |-> <<>>]
    /\ CommitJob
    /\ UNCHANGED <<transcripts, transcript_chunks, search_history, call, workers,
                   serialized, ncalls, last_embed, chunker, embed_one>>

\* process_text_paste up to the call of _step_analyze: job.start(), progress 20
ProcessTextPaste(t) ==
    /\ JobIdle
    /\ transcripts[t].status = "processing"
    /\ processing_jobs[t] = "queued"
    /\ job' = [pc |-> "analyze", kind |-> "paste", transcript_id |-> t,
               status |-> "processing", progress_percent |-> 20, embed_raised |-> FALSE,
               steps |-> <<>>]
    /\ CommitJob
    /\ UNCHANGED <<transcripts, transcript_chunks, search_history, call, workers,
                   serialized, ncalls, last_embed, chunker, embed_one>>

\* _step_transcribe: the text is stored (progress 40), or TranscriptionError
\* fails the job and the transcript and process_upload returns
StepTranscribe ==
    /\ job.pc = "transcribe"
    /\ \/ \E text \in TranscribedTexts :
            /\ transcripts' = [transcripts EXCEPT ![job.transcript_id].full_text = text]
            /\ job' = [job EXCEPT !.progress_percent = 40, !.pc = "analyze",
                                  !.steps = Append(@, "transcribe")]
       \/ /\ transcripts' = [transcripts EXCEPT ![job.transcript_id].status = "failed"]
          /\ job' = [job EXCEPT !.progress_percent = 10, !.status = "failed", !.pc = "done"]
    /\ CommitJob
    /\ UNCHANGED <<transcript_chunks, search_history, call, workers, serialized, ncalls,
                   last_embed, chunker, embed_one>>

\* _step_analyze: progress 50, and 70 after the analysis or its AIAnalysisError;
\* without text it returns at 50
StepAnalyze ==
    /\ job.pc = "analyze"
    /\ job' = [job EXCEPT
          !.progress_percent = IF transcripts[job.transcript_id].full_text = <<>> THEN 50 ELSE 70,
          !.pc = "embed", !.steps = Append(@, "analyze")]
    /\ UNCHANGED <<transcripts, transcript_chunks, search_history, call, workers,
                   serialized, ncalls, last_embed, chunker, embed_one, processing_jobs>>

\* _step_analyze raises something else than AIAnalysisError (a due_date of the
\* analysis that is no string makes date.fromisoformat raise TypeError): the
\* `except Exception` of the pipeline calls _fail_job, which fails the job
\* and leaves the transcript as it is
FailJob ==
    /\ job.pc = "analyze"
    /\ transcripts[job.transcript_id].full_text # <<>>
    /\ job' = [job EXCEPT !.progress_percent = 50, !.status = "failed", !.pc = "done"]
    /\ CommitJob
    /\ UNCHANGED <<transcripts, transcript_chunks, search_history, call, workers,
                   serialized, ncalls, last_embed, chunker, embed_one>>

\* _step_embed up to the call of embed_transcript: progress 80, and the
\* return when there is no text
JobStepEmbed ==
    /\ job.pc = "embed"
    /\ IF transcripts[job.transcript_id].full_text = <<>>
       THEN /\ job' = [job EXCEPT !.progress_percent = 80, !.pc = "complete",
                                  !.steps = Append(@, "embed")]
            /\ UNCHANGED <<workers, ncalls>>
       ELSE /\ job' = [job EXCEPT !.progress_percent = 80, !.pc = "embedding"]
            /\ workers' = [workers EXCEPT ![PipelineWorker] =
                  [IdleWorker EXCEPT !.pc = "delete", !.tid = job.transcript_id,
                                     !.text = transcripts[job.transcript_id].full_text,
                                     !.call = ncalls + 1]]
            /\ ncalls' = ncalls + 1
    /\ UNCHANGED <<transcripts, transcript_chunks, search_history, call, serialized,
                   last_embed, chunker, embed_one, processing_jobs>>

\* _step_embed after embed_transcript returned: progress 95 and commit
JobStepEmbedReturned ==
    /\ job.pc = "embedding"
    /\ workers[PipelineWorker].pc = "returned"
    /\ transcript_chunks' = CommitRows(transcript_chunks, workers[PipelineWorker].del, <<>>)
    /\ workers' = [workers EXCEPT ![PipelineWorker] = IdleWorker]
    /\ job' = [job EXCEPT !.progress_percent = 95, !.pc = "complete",
                          !.steps = Append(@, "embed")]
    /\ UNCHANGED <<transcripts, search_history, call, serialized, ncalls, last_embed,
                   chunker, embed_one, processing_jobs>>

\* an EmbeddingError that leaves _step_embed and reaches the `except Exception`
\* of the pipeline: _fail_job
JobStepEmbedAbort ==
    /\ job.pc = "embedding"
    /\ workers[PipelineWorker].pc = "raised"
    /\ transcript_chunks' = CommitRows(transcript_chunks, workers[PipelineWorker].del, <<>>)
    /\ workers' = [workers EXCEPT ![PipelineWorker] = IdleWorker]
    /\ job' = [job EXCEPT !.status = "failed", !.embed_raised = TRUE, !.pc = "done"]
    /\ CommitJob
    /\ UNCHANGED <<transcripts, search_history, call, serialized, ncalls, last_embed,
                   chunker, embed_one>>

\* _step_embed's `except EmbeddingError`: a warning, progress 95 and commit
JobStepEmbedExcept ==
    /\ job.pc = "embedding"
    /\ workers[PipelineWorker].pc = "raised"
    /\ transcript_chunks' = CommitRows(transcript_chunks, workers[PipelineWorker].del, <<>>)
    /\ workers' = [workers EXCEPT ![PipelineWorker] = IdleWorker]
    /\ job' = [job EXCEPT !.progress_percent = 95, !.embed_raised = TRUE, !.pc = "complete",
                          !.steps = Append(@, "embed")]
    /\ UNCHANGED <<transcripts, search_history, call, serialized, ncalls, last_embed,
                   chunker, embed_one, processing_jobs>>

\* a pipeline that marks the run complete without waiting for the embed step
MarkCompleteBeforeEmbed ==
    /\ job.pc \in {"embed", "complete"}
    /\ job' = [job EXCEPT !.status = "completed", !.progress_percent = 100, !.pc = "done"]
    /\ CommitJob
    /\ transcripts' = [transcripts EXCEPT ![job.transcript_id].status = "completed"]
    /\ UNCHANGED <<transcript_chunks, search_history, call, workers, serialized, ncalls,
                   last_embed, chunker, embed_one>>

\* job.complete(); transcript.status = "completed"; commit
MarkComplete ==
    /\ job.pc = "complete"
    /\ job' = [job EXCEPT !.status = "completed", !.progress_percent = 100, !.pc = "done"]
    /\ CommitJob
    /\ transcripts' = [transcripts EXCEPT ![job.transcript_id].status = "completed"]
    /\ UNCHANGED <<transcript_chunks, search_history, call, workers, serialized, ncalls,
                   last_embed, chunker, embed_one>>

NextPipeline ==
    \/ \E t \in PasteTranscripts : CreateTranscript(t)
    \/ \E t \in UploadTranscripts : ProcessUpload(t)
    \/ \E t \in PasteTranscripts : ProcessTextPaste(t)
    \/ StepTranscribe
    \/ StepAnalyze
    \/ FailJob
    \/ JobStepEmbed
    \/ EmbedDelete(PipelineWorker)
    \/ EmbedBatch(PipelineWorker)
    \/ EmbedCommit(PipelineWorker)
    \/ JobStepEmbedReturned
    \/ JobStepEmbedExcept
    \/ MarkComplete

\* the upload endpoints add run_processing_pipeline as a background task, so
\* the pipeline of an uploaded file starts; a started pipeline is a task of the
\* event loop, so each of its steps runs once it can. Nothing in the code
\* starts run_text_processing_pipeline: ProcessTextPaste may happen and need not
\* (the DELETE of embed_transcript returns: its fairness is written by its effect)
SpecPipeline ==
    /\ InitPipeline
    /\ [][NextPipeline]_vars
    /\ WF_vars(\E t \in UploadTranscripts : ProcessUpload(t))
    /\ WF_vars(StepTranscribe)
    /\ WF_vars(StepAnalyze \/ FailJob)
    /\ WF_vars(JobStepEmbed)
    /\ []<>(workers[PipelineWorker].pc # "delete")
    /\ WF_vars(EmbedBatch(PipelineWorker))
    /\ WF_vars(EmbedCommit(PipelineWorker))
    /\ WF_vars(JobStepEmbedReturned)
    /\ WF_vars(JobStepEmbedExcept)
    /\ WF_vars(MarkComplete)

\* the run in progress (or the last run) had an EmbeddingError in its embed step
EmbedRaised == job.pc # "none" /\ job.embed_raised

\* the last run ended after an EmbeddingError in its embed step
EndedAfterEmbedError == EmbedRaised /\ job.pc = "done"

\* the transcript of the job is found by a keyword search of its owner for
\* every query that its document matches
KeywordReachable(t) ==
    \A q \in Queries :
        TsMatch(Document(transcripts[t]), q) =>
            t \in {r.transcript_id : r \in KeywordMatches(q, transcripts[t].user_id)}

\* no semantic search of the owner returns a chunk of the transcript
SemanticUnreachable(t) ==
    \A q \in Queries, th \in Thresholds :
        \A r \in RankedChunks(BackendVector(q), transcripts[t].user_id, th) :
            r.transcript_id # t

\* C19: an EmbeddingError of the embed step does not abort the run and does
\* not fail the job: the run goes on to its end, where the job is completed
\* with progress 100 and the transcript is completed, found by keyword search
\* and by no semantic search
C19_EmbedErrorIsSoft ==
    /\ [](EmbedRaised =>
            /\ job.status # "failed"
            /\ transcripts[job.transcript_id].status # "failed"
            /\ job.pc \in {"complete", "done"})
    /\ [](EndedAfterEmbedError =>
            /\ job.status = "completed"
            /\ job.progress_percent = 100
            /\ transcripts[job.transcript_id].status = "completed"
            /\ KeywordReachable(job.transcript_id)
            /\ SemanticUnreachable(job.transcript_id))
    /\ ((job.pc = "embedding" /\ workers[PipelineWorker].pc = "raised")
            ~> EndedAfterEmbedError)

\* a run whose embed step raised on TextLong has ended, and the transcript
\* matches a query
C19_Witness ==
    /\ EndedAfterEmbedError
    /\ job.status = "completed"
    /\ transcripts[job.transcript_id].full_text = TextLong
    /\ TsMatch(Document(transcripts[job.transcript_id]), QueryB)

(***************************************************************************)
(* The chunks chunk_text emits                                             *)
(***************************************************************************)
\* a chunk of `text` whose offsets lie in the text and whose text is the
\* non-empty stripped text between them
WellFormedChunk(text, c) ==
    /\ 0 <= c[2]
    /\ c[2] < c[3]
    /\ c[3] <= Len(text)
    /\ c[1] # <<>>
    /\ c[1] = Strip(SubSeq(text, c[2] + 1, c[3]))

\* C21: every chunk chunk_text emits, on the loop path and on the path for
\* len(text) <= chunk_size, is non-empty, is text[start_char:end_char]
\* stripped, and has 0 <= start_char < end_char <= len(text); a text of
\* whitespace only gives no chunk
C21_ChunksWellFormed ==
    chunker.pc # "none" =>
        /\ \A k \in 1..Len(chunker.chunks) : WellFormedChunk(chunker.text, chunker.chunks[k])
        /\ IsBlank(chunker.text) => chunker.chunks = <<>>

\* the chunk_size and the overlap the caller of chunk_text means: the value
\* passed, the configured one when nothing is passed
MeantChunkSize == IF chunker.chunk_size_arg = NoneArg THEN ChunkSize ELSE chunker.chunk_size_arg
MeantOverlap == IF chunker.overlap_arg = NoneArg THEN ChunkOverlap ELSE chunker.overlap_arg

\* C22: with overlap < chunk_size the chunks chunk_text emits start at
\* strictly increasing offsets, span at most chunk_size characters each,
\* share at most `overlap` characters with the chunk before, and together
\* cover every non-whitespace character of the text
C22_ChunkSpans ==
    (chunker.pc # "none" /\ MeantOverlap < MeantChunkSize) =>
        LET c == chunker.chunks
        IN /\ \A k \in 2..Len(c) : c[k][2] > c[k - 1][2]
           /\ \A k \in 1..Len(c) : c[k][3] - c[k][2] <= MeantChunkSize
           /\ \A k \in 2..Len(c) : c[k - 1][3] - c[k][2] <= MeantOverlap
           /\ chunker.pc = "done" =>
                 \A i \in 1..Len(chunker.text) :
                     chunker.text[i] \notin Whitespace =>
                        \E k \in 1..Len(c) : c[k][2] < i /\ i <= c[k][3]

\* C30: chunk_text works with the chunk_size and the overlap the caller
\* passes, the configured values only when none is passed; with a passed
\* overlap of 0 no chunk starts before the end of the chunk before it
C30_PassedValuesUsed ==
    chunker.pc # "none" =>
        /\ chunker.chunk_size = MeantChunkSize
        /\ chunker.overlap = MeantOverlap
        /\ chunker.overlap_arg = 0 =>
              \A k \in 2..Len(chunker.chunks) :
                  chunker.chunks[k][2] >= chunker.chunks[k - 1][3]

(***************************************************************************)
(* The rows of one embed_transcript call are written together              *)
(***************************************************************************)
\* the stored rows that the call `c` wrote
RowsOfCall(c) == {r \in transcript_chunks : r.id[1] = c}

\* C23: embed_transcript writes the rows of a call in one write after the
\* last batch: the stored rows of a call are all the chunks of its text or
\* none, a call that is still embedding or whose backend failed has no row
\* stored, and none is stored after its error was handled
C23_RowsWrittenTogether ==
    /\ \A c \in {r.id[1] : r \in transcript_chunks} :
          \E text \in EmbedTexts : IsIndexOf(RowsOfCall(c), text, c)
    /\ \A w \in Workers :
          workers[w].pc \in {"delete", "delete_wait", "batch", "commit", "raised"} =>
             RowsOfCall(workers[w].call) = {}
    /\ \A t \in EmbedTranscripts :
          last_embed[t].error = EmbeddingError => RowsOfCall(last_embed[t].call) = {}

\* the backend failed for a later batch of a call, after the rows of an
\* earlier batch had been built, and no row of the call is stored
C23_Witness ==
    \E w \in Workers :
        /\ workers[w].pc = "raised"
        /\ workers[w].all_chunks # <<>>
        /\ RowsOfCall(workers[w].call) = {}

(***************************************************************************)
(* The number of transcripts a semantic search returns                     *)
(***************************************************************************)
\* the transcripts of the caller, completed, with a chunk at or above the
\* threshold of the call
Eligible(c) ==
    {r.transcript_id :
        r \in RankedChunks(BackendVector(c.query), c.user_id, c.similarity_threshold)}

\* the best similarity of a chunk of transcript t to the query of the call
BestChunk(c, t) ==
    Max({r.score : r \in {x \in RankedChunks(BackendVector(c.query), c.user_id,
                                               c.similarity_threshold) :
                             x.transcript_id = t}})

\* C24: semantic_search returns min(limit, E) transcripts, E being the number
\* of eligible transcripts, and every eligible transcript that fewer than
\* `limit` others beat on their best chunk is in the result
C24_LimitBestTranscripts ==
    (CallReturned(call) /\ call.kind = "semantic") =>
        /\ Len(call.results) = IF Cardinality(Eligible(call)) < call.limit
                               THEN Cardinality(Eligible(call)) ELSE call.limit
        /\ \A t \in Eligible(call) :
              Cardinality({u \in Eligible(call) : BestChunk(call, u) >= BestChunk(call, t)})
                 <= call.limit
              => t \in ResultIds(call.results)

(***************************************************************************)
(* The category filter                                                     *)
(***************************************************************************)
\* C25: when a semantic or a keyword search is given category_ids, every
\* transcript of its result has one of these categories
C25_CategoryFilter ==
    (CallReturned(call) /\ call.kind \in {"semantic", "keyword"} /\ call.category_ids # {}) =>
        \A t \in ResultIds(call.results) : Corpus[t].category_id \in call.category_ids

(***************************************************************************)
(* A failed re-index                                                       *)
(***************************************************************************)
\* C26: when embed_transcript fails with EmbeddingError for a transcript that had
\* chunk rows, the rows it had are still stored once _step_embed's handler has
\* committed
C26_FailedReindexKeepsRows ==
    [][\A w \in Workers :
          (workers[w].pc = "raised" /\ workers'[w].pc = "idle" /\ workers[w].del # {}) =>
              {r \in transcript_chunks : r.id \in workers[w].del} \subseteq transcript_chunks']_vars

(***************************************************************************)
(* The order of a pipeline run and the states it leaves                    *)
(***************************************************************************)
\* no keyword search and no semantic search of the owner returns the transcript
Unsearchable(t) ==
    /\ \A q \in Queries :
          t \notin {r.transcript_id : r \in KeywordMatches(q, transcripts[t].user_id)}
    /\ SemanticUnreachable(t)

\* the steps of process_upload, in the order of the code
UploadSteps == <<"transcribe", "analyze", "embed">>

\* C27: an uploaded transcript is returned by no search before the embed step
\* of its run has finished: it is found only in status "completed", it gets
\* this status only from a run that has done transcribe, analyze and embed in
\* this order, and a transcript whose transcription failed becomes "failed"
\* and does not become "completed"
C27_CompletedAfterEmbed ==
    /\ [](\A t \in UploadTranscripts :
            transcripts[t].status # "completed" => Unsearchable(t))
    /\ [][\A t \in UploadTranscripts :
            (transcripts[t].status # "completed" /\ transcripts'[t].status = "completed") =>
                (job.transcript_id = t /\ job.steps = UploadSteps)]_vars
    /\ [][(job.pc = "transcribe" /\ job'.status = "failed") =>
              transcripts'[job.transcript_id].status = "failed"]_vars
    /\ [][\A t \in UploadTranscripts :
            transcripts[t].status = "failed" => transcripts'[t].status = "failed"]_vars

\* the transcription of t1 failed, and the run of t2 did its three steps,
\* stored rows and made t2 searchable
C27_Witness ==
    /\ transcripts["t1"].status = "failed"
    /\ processing_jobs["t1"] = "failed"
    /\ job.pc = "done"
    /\ job.transcript_id = "t2"
    /\ job.steps = UploadSteps
    /\ transcripts["t2"].status = "completed"
    /\ \E r \in transcript_chunks : r.transcript_id = "t2"
    /\ ~Unsearchable("t2")

\* C28: whenever the job of a transcript is "failed", the transcript is "failed"
\* too, whatever exception ended the run
C28_FailedJobFailsDocument ==
    \A t \in TranscriptIds :
        processing_jobs[t] = "failed" => transcripts[t].status = "failed"

\* C29: once create_transcript has stored a pasted transcript with a queued job,
\* the text pipeline is eventually run for it: the job eventually leaves "queued"
C29_PastedIsProcessed ==
    \A t \in PasteTranscripts :
        (transcripts[t].status = "processing" /\ processing_jobs[t] = "queued") ~>
            (processing_jobs[t] # "queued")

RunStatus == IF job.pc = "none" THEN "none" ELSE job.status

\* every started run ends with its job completed or failed
RunsEnd == (RunStatus = "processing") ~> (RunStatus \in {"completed", "failed"})

====
